---------------------------- MODULE Spec2Model ----------------------------
(***************************************************************************)
(* Model of the OBJ loader of poli-gon (src/src/loaders/obj/obj_parser.rs) *)
(* and of its scene graph (src/src/core/object3d.rs).                      *)
(*                                                                         *)
(* ObjParser::parse is modelled as a state machine that consumes the       *)
(* document one line per step.  A line is the sequence of its whitespace-  *)
(* separated tokens; a corner of an f line is the sequence of its          *)
(* '/'-separated segments.  Option values are sequences: <<>> is None and  *)
(* <<x>> is Some(x).  f32 values are modelled by integers.                 *)
(*                                                                         *)
(* The scene graph is a second state machine over a fixed set of Object3d  *)
(* nodes: Object3d::add links them, Object3d::bfs and Object3d::dfs make   *)
(* an iterator, and each call of next is one step.                         *)
(***************************************************************************)
EXTENDS Integers, Sequences, FiniteSets, TLC

VARIABLES
    options,          \* ObjParseOptions, fixed for the whole call
    overflow_checks,  \* build profile: TRUE when arithmetic overflow panics
    state,            \* ObjParseState
    default_uvs,      \* HashSet<i32> of parse
    default_normals,  \* HashSet<i32> of parse
    line_num,         \* number of lines consumed so far (1-based number of the last one)
    outcome,          \* "running", "ok" (Ok returned), "err" (Err returned), "panic"
    error,            \* the ObjParseError returned, or the panic, or NoError
    group,            \* children of the root group of the ObjParseResult
    parent,           \* Object3d::parent of every node: None or Some(node)
    children,         \* Object3d::children of every node
    hung,             \* TRUE when a call of Object3d::add does not return
    iterator,         \* the BfsIterator or DfsIterator in use, if any
    yielded           \* the nodes that the iterator has returned, in order

parse_vars == <<options, overflow_checks, state, default_uvs, default_normals,
                line_num, outcome, error, group>>

scene_vars == <<parent, children, hung, iterator, yielded>>

vars == <<options, overflow_checks, state, default_uvs, default_normals,
          line_num, outcome, error, group,
          parent, children, hung, iterator, yielded>>

-----------------------------------------------------------------------------
(* Bounds of the model. *)

MaxLines == 4

MaxCorners == 4

\* Caps on the entries of each pool and on the pending objects.
MaxPositions == 2

MaxNormals == 1

MaxTexcoords == 1

MaxObjects == 2

\* Calls of Object3d::add on the scene graph.
MaxAdds == 3

-----------------------------------------------------------------------------
(* Option<T> *)

None == <<>>

Some(x) == <<x>>

IsSome(o) == o # <<>>

\* a.zip(b).zip(c).map(|((x, y), z)| (x, y, z))
Zip3(a, b, c) == IF IsSome(a) /\ IsSome(b) /\ IsSome(c)
                 THEN Some(<<a[1], b[1], c[1]>>)
                 ELSE None

-----------------------------------------------------------------------------
(* Machine arithmetic.  usize is 64 bits wide in the program; TLC's        *)
(* integers are 32 bits wide, so the model keeps the wrap-around with a    *)
(* 16-bit usize.  The reference numbers of the model are far smaller than  *)
(* either modulus, which is all the arithmetic of the resolver depends on. *)

UsizeModulus == 2^16

\* An arithmetic result: the wrapped value, and whether the exact value
\* left the range of usize (a panic in a build with overflow checks).
UsizeResult(exact) == [value |-> exact % UsizeModulus,
                       overflow |-> exact < 0 \/ exact >= UsizeModulus]

\* `x as usize` of an i32: sign extension, never checked.
I32AsUsize(x) == x % UsizeModulus

-----------------------------------------------------------------------------
(* str::parse *)

\* The tokens of the model that s.parse::<f32>() accepts, with their value.
F32Table == [t \in {"0", "1", "1.0", "2", "3", "4", "5", "6", "7", "8", "9",
                    "10", "11", "+1", "-1"} |->
                CASE t = "0" -> 0   [] t = "1" -> 1   [] t = "1.0" -> 1
                  [] t = "2" -> 2   [] t = "3" -> 3   [] t = "4" -> 4
                  [] t = "5" -> 5   [] t = "6" -> 6   [] t = "7" -> 7
                  [] t = "8" -> 8   [] t = "9" -> 9   [] t = "10" -> 10
                  [] t = "11" -> 11 [] t = "+1" -> 1  [] t = "-1" -> -1]

\* The tokens of the model that s.parse::<i32>() accepts, with their value.
\* "", "x", "1.0" and "2147483648" (out of the range of i32) are rejected.
I32Table == [t \in {"0", "1", "2", "3", "8", "9", "+1", "01", "-1", "-2",
                    "-3", "-9"} |->
                CASE t = "0" -> 0   [] t = "1" -> 1   [] t = "2" -> 2
                  [] t = "3" -> 3   [] t = "8" -> 8   [] t = "9" -> 9
                  [] t = "+1" -> 1  [] t = "01" -> 1  [] t = "-1" -> -1
                  [] t = "-2" -> -2 [] t = "-3" -> -3 [] t = "-9" -> -9]

parse_f32(s) == IF s \in DOMAIN F32Table THEN Some(F32Table[s]) ELSE None

parse_i32(s) == IF s \in DOMAIN I32Table THEN Some(I32Table[s]) ELSE None

\* parts.next(): the k-th argument token of a line (the command is token 1).
NextPart(line, k) == IF k + 1 <= Len(line) THEN Some(line[k + 1]) ELSE None

\* opt.and_then(Self::parse_f32)
AndThenF32(o) == IF IsSome(o) THEN parse_f32(o[1]) ELSE None

\* opt.and_then(Self::parse_i32)
AndThenI32(o) == IF IsSome(o) THEN parse_i32(o[1]) ELSE None

-----------------------------------------------------------------------------
(* ObjObject, ObjParseState *)

ObjGeometry_new == [position |-> <<>>, normal |-> <<>>, uv |-> <<>>]

ObjObject_new(name, from_declaration) ==
    [name |-> name, from_declaration |-> from_declaration,
     geometry |-> ObjGeometry_new]

ObjObject_default ==
    [name |-> None, from_declaration |-> FALSE, geometry |-> ObjGeometry_new]

\* current_object is an Rc to one element of objects: its index.
ObjParseState_new ==
    [objects |-> <<ObjObject_default>>, current_object |-> 1,
     vertices |-> <<>>, normals |-> <<>>, uvs |-> <<>>]

CurrentObject(s) == s.objects[s.current_object]

\* start_object that appends whatever the current object is.
start_object_AlwaysNew(s, name, from_declaration) ==
    [s EXCEPT !.objects = Append(s.objects, ObjObject_new(name, from_declaration)),
              !.current_object = Len(s.objects) + 1]

\* start_object that goes back to a pending object of the same name.
start_object_MergeByName(s, name, from_declaration) ==
    IF ~CurrentObject(s).from_declaration
    THEN [s EXCEPT !.objects[s.current_object].name = name,
                   !.objects[s.current_object].from_declaration = from_declaration]
    ELSE IF \E k \in DOMAIN s.objects : s.objects[k].name = name
    THEN [s EXCEPT !.current_object =
                       CHOOSE k \in DOMAIN s.objects : s.objects[k].name = name]
    ELSE [s EXCEPT !.objects = Append(s.objects, ObjObject_new(name, from_declaration)),
                   !.current_object = Len(s.objects) + 1]

start_object(s, name, from_declaration) ==
    IF ~CurrentObject(s).from_declaration
    THEN [s EXCEPT !.objects[s.current_object].name = name,
                   !.objects[s.current_object].from_declaration = from_declaration]
    ELSE [s EXCEPT !.objects = Append(s.objects, ObjObject_new(name, from_declaration)),
                   !.current_object = Len(s.objects) + 1]

-----------------------------------------------------------------------------
(* Reference resolution *)

\* ReferenceToIndex with a negative reference counted from the first entry.
ReferenceToIndex_FromStart(width, len, reference_number) ==
    LET entry == IF reference_number >= 0
                 THEN UsizeResult(reference_number - 1)
                 ELSE [value |-> I32AsUsize(-reference_number - 1),
                       overflow |-> FALSE]
        scaled == UsizeResult(width * entry.value)
    IN  [value |-> scaled.value, overflow |-> entry.overflow \/ scaled.overflow]

\* width * if r >= 0 { r as usize - 1 } else { (r + len as i32 / width) as usize }
\* The result carries `overflow` when one of the operations left usize.
ReferenceToIndex(width, len, reference_number) ==
    LET entry == IF reference_number >= 0
                 THEN UsizeResult(reference_number - 1)
                 ELSE [value |-> I32AsUsize(reference_number + len \div width),
                       overflow |-> FALSE]
        scaled == UsizeResult(width * entry.value)
    IN  [value |-> scaled.value, overflow |-> entry.overflow \/ scaled.overflow]

vertex_reference_to_index(s, reference_number) ==
    ReferenceToIndex(3, Len(s.vertices), reference_number)

normal_reference_to_index(s, reference_number) ==
    ReferenceToIndex(3, Len(s.normals), reference_number)

uv_reference_to_index(s, reference_number) ==
    ReferenceToIndex(2, Len(s.uvs), reference_number)

\* Vec::get with a zero-based usize index.
Get(vec, index) == IF index < Len(vec) THEN Some(vec[index + 1]) ELSE None

\* pool.get(index + k); overflow: `index + k` left usize.
Component(pool, ix, k) ==
    [got |-> Get(pool, (ix.value + k) % UsizeModulus),
     overflow |-> ix.overflow \/ ix.value + k >= UsizeModulus]

\* One chunk of a lookups array: Some(components) when every lookup hit.
ChunkOf(c, width) ==
    [overflow |-> \E k \in 1..width : c[k].overflow,
     values |-> IF \A k \in 1..width : IsSome(c[k].got)
                THEN Some([k \in 1..width |-> c[k].got[1]])
                ELSE None]

\* [pool.get(index), pool.get(index + 1), ...]: `width` lookups from index.
Chunk(pool, ix, width) ==
    ChunkOf([k \in 1..width |-> Component(pool, ix, k - 1)], width)

\* The lookups array of add_vertex, add_normal and add_uv, in chunks: one
\* chunk per reference.
Lookups(pool, width, indices) == [k \in 1..3 |-> Chunk(pool, indices[k], width)]

\* The panic of a build with overflow checks.
OverflowPanics(chunks) == overflow_checks /\ \E k \in 1..3 : chunks[k].overflow

\* Index of the first chunk that missed, 0 when all three hit.
FirstMiss(chunks) ==
    IF \A k \in 1..3 : IsSome(chunks[k].values) THEN 0
    ELSE CHOOSE k \in 1..3 : /\ ~IsSome(chunks[k].values)
                             /\ \A j \in 1..(k - 1) : IsSome(chunks[j].values)

-----------------------------------------------------------------------------
(* ObjParseState::add_vertex, add_normal, add_uv, add_default_uv, add_face  *)
(* Each returns [kind, state, ...]: kind is "ok", "err" (with the          *)
(* reference number) or "panic"; state is the parse state it leaves.       *)

RECURSIVE Flatten(_, _)
\* Concatenation of the values of the first n chunks.
Flatten(chunks, n) == IF n = 0 THEN <<>>
                      ELSE Flatten(chunks, n - 1) \o chunks[n].values[1]

Panic(s, message) ==
    [kind |-> "panic", state |-> s, reference_number |-> 0, message |-> message]

Ok(s) == [kind |-> "ok", state |-> s, reference_number |-> 0, message |-> ""]

Err(s, reference_number) ==
    [kind |-> "err", state |-> s, reference_number |-> reference_number,
     message |-> ""]

\* The loop of add_vertex over vertices.chunks(3): it extends the current
\* object's position chunk by chunk and returns at the first chunk that
\* missed.
ExtendPosition(s, refs, chunks) ==
    LET miss == FirstMiss(chunks)
    IN  IF OverflowPanics(chunks) THEN Panic(s, "arithmetic overflow")
        ELSE IF miss = 0
        THEN Ok([s EXCEPT !.objects[s.current_object].geometry.position =
                              @ \o Flatten(chunks, 3)])
        ELSE Err([s EXCEPT !.objects[s.current_object].geometry.position =
                               @ \o Flatten(chunks, miss - 1)],
                 refs[miss])

add_vertex(s, v1, v2, v3) ==
    ExtendPosition(s, <<v1, v2, v3>>,
                   Lookups(s.vertices, 3, <<vertex_reference_to_index(s, v1),
                                            vertex_reference_to_index(s, v2),
                                            vertex_reference_to_index(s, v3)>>))

\* The second half of add_normal: new_normals is collected first, and the
\* current object's normal is extended only when all three chunks hit.
ExtendNormal(s, refs, chunks) ==
    LET miss == FirstMiss(chunks)
    IN  IF OverflowPanics(chunks) THEN Panic(s, "arithmetic overflow")
        ELSE IF miss = 0
        THEN Ok([s EXCEPT !.objects[s.current_object].geometry.normal =
                              @ \o Flatten(chunks, 3)])
        ELSE Err(s, refs[miss])

add_normal(s, vn1, vn2, vn3) ==
    ExtendNormal(s, <<vn1, vn2, vn3>>,
                 Lookups(s.normals, 3, <<normal_reference_to_index(s, vn1),
                                         normal_reference_to_index(s, vn2),
                                         normal_reference_to_index(s, vn3)>>))

\* ExtendUv that extends uv chunk by chunk, as add_vertex does position.
ExtendUv_PerCorner(s, refs, chunks) ==
    LET miss == FirstMiss(chunks)
    IN  IF OverflowPanics(chunks) THEN Panic(s, "arithmetic overflow")
        ELSE IF miss = 0
        THEN Ok([s EXCEPT !.objects[s.current_object].geometry.uv =
                              @ \o Flatten(chunks, 3)])
        ELSE Err([s EXCEPT !.objects[s.current_object].geometry.uv =
                               @ \o Flatten(chunks, miss - 1)],
                 refs[miss])

\* The second half of add_uv, as of add_normal.
ExtendUv(s, refs, chunks) ==
    LET miss == FirstMiss(chunks)
    IN  IF OverflowPanics(chunks) THEN Panic(s, "arithmetic overflow")
        ELSE IF miss = 0
        THEN Ok([s EXCEPT !.objects[s.current_object].geometry.uv =
                              @ \o Flatten(chunks, 3)])
        ELSE Err(s, refs[miss])

add_uv(s, vt1, vt2, vt3) ==
    ExtendUv(s, <<vt1, vt2, vt3>>,
             Lookups(s.uvs, 2, <<uv_reference_to_index(s, vt1),
                                 uv_reference_to_index(s, vt2),
                                 uv_reference_to_index(s, vt3)>>))

\* add_default_uv extending by one (0, 0) only.
add_default_uv_OneCorner(s) ==
    [s EXCEPT !.objects[s.current_object].geometry.uv = @ \o <<0, 0>>]

add_default_uv(s) ==
    [s EXCEPT !.objects[s.current_object].geometry.uv = @ \o <<0, 0, 0, 0, 0, 0>>]

\* Result of add_face: kind "ok" with warn = <<erroneous_vt, erroneous_vn>>,
\* kind "err" with (data_type, reference_number), or kind "panic".
FaceOk(s, erroneous_vt, erroneous_vn) ==
    [kind |-> "ok", state |-> s, warn |-> <<erroneous_vt, erroneous_vn>>,
     data_type |-> "", reference_number |-> 0, message |-> ""]

FaceErr(s, data_type, reference_number) ==
    [kind |-> "err", state |-> s, warn |-> <<None, None>>,
     data_type |-> data_type, reference_number |-> reference_number,
     message |-> ""]

FacePanic(s, message) ==
    [kind |-> "panic", state |-> s, warn |-> <<None, None>>,
     data_type |-> "", reference_number |-> 0, message |-> message]

\* `if let Err(reference_number) = self.add_uv(..)`: r is add_uv's result.
UvOutcome(r, error_on_invalid_reference_number) ==
    CASE r.kind = "panic" -> FacePanic(r.state, r.message)
      [] r.kind = "ok" -> FaceOk(r.state, None, None)
      [] r.kind = "err" ->
           IF error_on_invalid_reference_number
           THEN FaceErr(r.state, "vt", r.reference_number)
           ELSE FaceOk(add_default_uv(r.state), Some(r.reference_number), None)

\* AddFaceUv that, with the flag set, takes a triangle without vt for an
\* invalid reference.
AddFaceUv_StrictRequiresVt(s, vt, error_on_invalid_reference_number) ==
    IF IsSome(vt)
    THEN UvOutcome(add_uv(s, vt[1][1], vt[1][2], vt[1][3]),
                   error_on_invalid_reference_number)
    ELSE IF error_on_invalid_reference_number THEN FaceErr(s, "vt", 0)
    ELSE FaceOk(add_default_uv(s), None, None)

\* The texture-coordinate stage of add_face, entered with the positions in.
AddFaceUv(s, vt, error_on_invalid_reference_number) ==
    IF IsSome(vt)
    THEN UvOutcome(add_uv(s, vt[1][1], vt[1][2], vt[1][3]),
                   error_on_invalid_reference_number)
    ELSE FaceOk(add_default_uv(s), None, None)

\* `if let Err(reference_number) = self.add_normal(..)`: r is add_normal's
\* result.  The lenient branch is todo!(), a panic.
NormalOutcome(r, erroneous_vt, error_on_invalid_reference_number) ==
    CASE r.kind = "panic" -> FacePanic(r.state, r.message)
      [] r.kind = "ok" -> FaceOk(r.state, erroneous_vt, None)
      [] r.kind = "err" ->
           IF error_on_invalid_reference_number
           THEN FaceErr(r.state, "vn", r.reference_number)
           ELSE FacePanic(r.state, "not yet implemented")

\* AddFaceNormal that accepts a triangle without vn and appends no normal.
AddFaceNormal_Optional(s, erroneous_vt, vn, error_on_invalid_reference_number) ==
    IF IsSome(vn)
    THEN NormalOutcome(add_normal(s, vn[1][1], vn[1][2], vn[1][3]),
                       erroneous_vt, error_on_invalid_reference_number)
    ELSE FaceOk(s, erroneous_vt, None)

\* The normal stage of add_face; without vn it is todo!(), a panic.
AddFaceNormal(s, erroneous_vt, vn, error_on_invalid_reference_number) ==
    IF IsSome(vn)
    THEN NormalOutcome(add_normal(s, vn[1][1], vn[1][2], vn[1][3]),
                       erroneous_vt, error_on_invalid_reference_number)
    ELSE FacePanic(s, "not yet implemented")

\* add_face from the texture-coordinate stage's result rt on.
AfterUv(rt, vn, error_on_invalid_reference_number) ==
    IF rt.kind # "ok" THEN rt
    ELSE AddFaceNormal(rt.state, rt.warn[1], vn,
                       error_on_invalid_reference_number)

\* add_face from add_vertex's result rv on.
AfterVertex(rv, vt, vn, error_on_invalid_reference_number) ==
    CASE rv.kind = "panic" -> FacePanic(rv.state, rv.message)
      [] rv.kind = "err" -> FaceErr(rv.state, "v", rv.reference_number)
      [] rv.kind = "ok" ->
           AfterUv(AddFaceUv(rv.state, vt, error_on_invalid_reference_number),
                   vn, error_on_invalid_reference_number)

add_face(s, v, vt, vn, error_on_invalid_reference_number) ==
    AfterVertex(add_vertex(s, v[1], v[2], v[3]), vt, vn,
                error_on_invalid_reference_number)

-----------------------------------------------------------------------------
(* The documents of the model.  A line is the sequence of the tokens that  *)
(* line.split_whitespace() yields.                                         *)

BlankLines == { <<>> }

VLines == { <<"v", "1", "2", "3">>, <<"v", "4", "5", "6">>,
            <<"v", "1.0", "2", "3", "1">>, <<"v", "1", "2", "3", "x">>,
            <<"v", "4", "5", "6", "1", "9">>,
            <<"v", "1", "2">>, <<"v", "1", "x", "3">>, <<"v">> }

VnLines == { <<"vn", "7", "8", "9">>, <<"vn", "7", "8", "9", "9">>,
             <<"vn", "7", "8">>, <<"vn", "x", "8", "9">> }

VtLines == { <<"vt", "10", "11">>, <<"vt", "10", "11", "x">>,
             <<"vt", "10", "11", "0", "9">>,
             <<"vt", "10">>, <<"vt", "10", "x">> }

ObjectLines == { <<"o", "A">>, <<"g">>, <<"g", "A", "B">> }

OtherLines == { <<"s", "1">>, <<"usemtl", "m">> }

\* vertex.split('/'): the segments of each corner token of the model.
SplitTable ==
    [t \in {"1//1", "2//1", "1/1/1", "2/1/1", "1", "-1/-1/-1", "0//1", "9//1", "-9//1",
            "8/9/9", "x//1", "x/9/9", "/1/1", "1/9/1", "1/8/1", "1/0/1",
            "1/x/1", "1/1", "1/", "1//9", "1/1/9", "1/1/8", "1/1/x",
            "1/1/1/7", "+1/01/1", "-1//-1", "-2//-1", "-2/-1/-1"} |->
        CASE t = "1//1" -> <<"1", "", "1">>
          [] t = "2//1" -> <<"2", "", "1">>
          [] t = "1/1/1" -> <<"1", "1", "1">>
          [] t = "2/1/1" -> <<"2", "1", "1">>
          [] t = "1" -> <<"1">>
          [] t = "-1/-1/-1" -> <<"-1", "-1", "-1">>
          [] t = "0//1" -> <<"0", "", "1">>
          [] t = "9//1" -> <<"9", "", "1">>
          [] t = "-9//1" -> <<"-9", "", "1">>
          [] t = "8/9/9" -> <<"8", "9", "9">>
          [] t = "x//1" -> <<"x", "", "1">>
          [] t = "x/9/9" -> <<"x", "9", "9">>
          [] t = "/1/1" -> <<"", "1", "1">>
          [] t = "1/9/1" -> <<"1", "9", "1">>
          [] t = "1/8/1" -> <<"1", "8", "1">>
          [] t = "1/0/1" -> <<"1", "0", "1">>
          [] t = "1/x/1" -> <<"1", "x", "1">>
          [] t = "1/1" -> <<"1", "1">>
          [] t = "1/" -> <<"1", "">>
          [] t = "1//9" -> <<"1", "", "9">>
          [] t = "1/1/9" -> <<"1", "1", "9">>
          [] t = "1/1/8" -> <<"1", "1", "8">>
          [] t = "1/1/x" -> <<"1", "1", "x">>
          [] t = "1/1/1/7" -> <<"1", "1", "1", "7">>
          [] t = "+1/01/1" -> <<"+1", "01", "1">>
          [] t = "-1//-1" -> <<"-1", "", "-1">>
          [] t = "-2//-1" -> <<"-2", "", "-1">>
          [] t = "-2/-1/-1" -> <<"-2", "-1", "-1">>]

SplitSlash(vertex) == SplitTable[vertex]

Corners == DOMAIN SplitTable

\* f lines of n corners whose segments all parse, and resolve once the pools
\* hold two positions, a texture coordinate and a normal: the same corner n
\* times, or two corners in turn.
Alternate(n, odd, even) == [k \in 1..n |-> IF k % 2 = 1 THEN odd ELSE even]

PlainFaceLines ==
    UNION { { <<"f">> \o Alternate(n, "1//1", "1//1"),
              <<"f">> \o Alternate(n, "1/1/1", "1/1/1"),
              <<"f">> \o Alternate(n, "1//1", "2//1"),
              <<"f">> \o Alternate(n, "2/1/1", "1/1/1") } : n \in 0..MaxCorners }

\* f lines of three corners, the second of them any corner of the model.
OddFaceLines == { <<"f", "1/1/1", odd, "1/1/1">> : odd \in Corners }

\* f lines with several corners that do not parse or do not resolve.
MixedFaceLines ==
    { <<"f", "9//1", "8/9/9", "1//1">>, <<"f", "1//1", "8/9/9", "9//1">>,
      <<"f", "1/9/1", "1/8/1", "1/1/1">>, <<"f", "1/1/1", "1/8/1", "1/9/1">>,
      <<"f", "1/1/9", "1/1/8", "1/1/1">>, <<"f", "1/1/1", "1/1/8", "1/1/9">>,
      <<"f", "1/9/1", "1/1/9", "1/1/1">>, <<"f", "1/1/9", "x//1", "0//1">>,
      <<"f", "1/1/1", "1/1/1", "1/9/1", "9//1">>,
      <<"f", "1/1/1", "1/x/1", "1/1/1", "1/9/1">>,
      <<"f", "1/1/1", "1/x/1", "1/1/1", "1/1/1">>,
      <<"f", "1/1/1", "x//1", "1/1/1", "1//1">>,
      <<"f", "1/1/1", "1/1/1", "1/1/1", "1/1/9">>,
      <<"f", "-1/-1/-1", "-1/-1/-1", "-1/-1/-1">>,
      <<"f", "1/1/1", "1/1/1", "1/1/1", "x/9/9">>,
      <<"f", "1/1/1", "/1/1", "1/1/1", "1/1/1">> }

\* f lines of one or two corners that do not parse or do not resolve.
DegenerateFaceLines ==
    { <<"f", "x//1">>, <<"f", "9//1">>, <<"f", "0//1", "-9//1">>,
      <<"f", "1/9/1", "1/1/9">>, <<"f", "1/x/1", "1/1/x">> }

\* Triangles with references counted back from the end of the pools.
RelativeFaceLines ==
    { <<"f", "-1//-1", "-1//-1", "-1//-1">>, <<"f", "-1//-1", "-2//-1", "1//1">>,
      <<"f", "-2/-1/-1", "-1/-1/-1", "2/1/1">> }

FaceLines ==
    PlainFaceLines \cup OddFaceLines \cup MixedFaceLines
        \cup DegenerateFaceLines \cup RelativeFaceLines

-----------------------------------------------------------------------------
(* ObjParseError *)

NoError == [type |-> "none"]

InvalidSyntax(n, lo, hi) ==
    [type |-> "InvalidSyntax", line_num |-> n,
     expected_num_args |-> <<lo, hi>>, expected_type |-> "f32"]

UnsupportedCommand(n, cmd) ==
    [type |-> "UnsupportedCommand", line_num |-> n, command |-> cmd]

InvalidReferenceNumber(n, data_type, reference_number) ==
    [type |-> "InvalidReferenceNumber", line_num |-> n,
     data_type |-> data_type, reference_number |-> reference_number]

PanicError(message) == [type |-> "panic", message |-> message]

-----------------------------------------------------------------------------
(* The body of the loop of ObjParser::parse, one operator per match arm.   *)
(* c is the parse so far, [state, default_uvs, default_normals]; n is the  *)
(* line's number.  The result adds kind ("ok": the loop goes on, "err":    *)
(* parse returned Err, "panic") and error.                                 *)

Continue(c) == [kind |-> "ok", state |-> c.state, default_uvs |-> c.default_uvs,
                default_normals |-> c.default_normals, error |-> NoError]

Return(c, e) == [kind |-> "err", state |-> c.state, default_uvs |-> c.default_uvs,
                 default_normals |-> c.default_normals, error |-> e]

Abort(c, message) ==
    [kind |-> "panic", state |-> c.state, default_uvs |-> c.default_uvs,
     default_normals |-> c.default_normals, error |-> PanicError(message)]

\* HandleV that keeps w with x, y and z when the line gives one.
HandleV_KeepsW(c, line, n) ==
    LET x == AndThenF32(NextPart(line, 1))
        y == AndThenF32(NextPart(line, 2))
        z == AndThenF32(NextPart(line, 3))
        w == AndThenF32(NextPart(line, 4))
    IN  IF IsSome(x) /\ IsSome(y) /\ IsSome(z)
        THEN Continue([c EXCEPT !.state.vertices =
                 @ \o <<x[1], y[1], z[1]>> \o (IF IsSome(w) THEN <<w[1]>> ELSE <<>>)])
        ELSE Return(c, InvalidSyntax(n, 3, 4))

HandleV(c, line, n) ==
    LET x == AndThenF32(NextPart(line, 1))
        y == AndThenF32(NextPart(line, 2))
        z == AndThenF32(NextPart(line, 3))
    IN  IF IsSome(x) /\ IsSome(y) /\ IsSome(z)
        THEN Continue([c EXCEPT !.state.vertices = @ \o <<x[1], y[1], z[1]>>])
        ELSE Return(c, InvalidSyntax(n, 3, 4))

\* HandleVn that takes a fourth argument for an error.
HandleVn_NoExtra(c, line, n) ==
    LET i == AndThenF32(NextPart(line, 1))
        j == AndThenF32(NextPart(line, 2))
        k == AndThenF32(NextPart(line, 3))
    IN  IF IsSome(i) /\ IsSome(j) /\ IsSome(k) /\ ~IsSome(NextPart(line, 4))
        THEN Continue([c EXCEPT !.state.normals = @ \o <<i[1], j[1], k[1]>>])
        ELSE Return(c, InvalidSyntax(n, 3, 3))

HandleVn(c, line, n) ==
    LET i == AndThenF32(NextPart(line, 1))
        j == AndThenF32(NextPart(line, 2))
        k == AndThenF32(NextPart(line, 3))
    IN  IF IsSome(i) /\ IsSome(j) /\ IsSome(k)
        THEN Continue([c EXCEPT !.state.normals = @ \o <<i[1], j[1], k[1]>>])
        ELSE Return(c, InvalidSyntax(n, 3, 3))

\* HandleVt that reports the range of arguments of vn.
HandleVt_NormalRange(c, line, n) ==
    LET u == AndThenF32(NextPart(line, 1))
        v == AndThenF32(NextPart(line, 2))
    IN  IF IsSome(u) /\ IsSome(v)
        THEN Continue([c EXCEPT !.state.uvs = @ \o <<u[1], v[1]>>])
        ELSE Return(c, InvalidSyntax(n, 3, 3))

HandleVt(c, line, n) ==
    LET u == AndThenF32(NextPart(line, 1))
        v == AndThenF32(NextPart(line, 2))
    IN  IF IsSome(u) /\ IsSome(v)
        THEN Continue([c EXCEPT !.state.uvs = @ \o <<u[1], v[1]>>])
        ELSE Return(c, InvalidSyntax(n, 2, 3))

\* a.next(): the k-th segment of a corner's fresh Split iterator.
Segment(corner, k) == IF k <= Len(corner) THEN Some(corner[k]) ELSE None

\* The k-th of [v, vt, vn] of a window: the k-th segments of a, b and c,
\* each parsed, zipped into a triple.
Triple(a, b, c, k) == Zip3(AndThenI32(Segment(a, k)),
                           AndThenI32(Segment(b, k)),
                           AndThenI32(Segment(c, k)))

\* The match on add_face's result r: the warnings join the diagnostic sets,
\* an error ends parse.
FaceOutcome(c, r, n) ==
    CASE r.kind = "panic" -> Abort([c EXCEPT !.state = r.state], r.message)
      [] r.kind = "err" ->
           Return([c EXCEPT !.state = r.state],
                  InvalidReferenceNumber(n, r.data_type, r.reference_number))
      [] r.kind = "ok" ->
           Continue([c EXCEPT
               !.state = r.state,
               !.default_uvs =
                   IF IsSome(r.warn[1]) THEN @ \cup {r.warn[1][1]} ELSE @,
               !.default_normals =
                   IF IsSome(r.warn[2]) THEN @ \cup {r.warn[2][1]} ELSE @])

\* Window that takes a corner without a v reference for an invalid one.
Window_NoSkip(c, a, b, cc, n, error_on_invalid_reference_number) ==
    LET v == Triple(a, b, cc, 1)
    IN  IF ~IsSome(v) THEN Return(c, InvalidReferenceNumber(n, "v", 0))
        ELSE FaceOutcome(c,
                         add_face(c.state, v[1], Triple(a, b, cc, 2),
                                  Triple(a, b, cc, 3),
                                  error_on_invalid_reference_number),
                         n)

\* One iteration of `for window in triplets[1..].windows(2)`.
Window(c, a, b, cc, n, error_on_invalid_reference_number) ==
    LET v == Triple(a, b, cc, 1)
    IN  IF ~IsSome(v) THEN Continue(c)
        ELSE FaceOutcome(c,
                         add_face(c.state, v[1], Triple(a, b, cc, 2),
                                  Triple(a, b, cc, 3),
                                  error_on_invalid_reference_number),
                         n)

RECURSIVE Windows_NoStop(_, _, _, _, _)
\* Windows without the `?` on add_face: a window that returned or panicked
\* does not end the line, and the last window decides.
Windows_NoStop(r, triplets, i, n, error_on_invalid_reference_number) ==
    IF i + 2 > Len(triplets) THEN r
    ELSE Windows_NoStop(Window(r, triplets[1], triplets[i + 1], triplets[i + 2],
                               n, error_on_invalid_reference_number),
                        triplets, i + 1, n, error_on_invalid_reference_number)

RECURSIVE Windows_Strip(_, _, _, _, _)
\* Windows over triplets.windows(3): a strip, no corner shared by all.
Windows_Strip(r, triplets, i, n, error_on_invalid_reference_number) ==
    IF r.kind # "ok" \/ i + 2 > Len(triplets) THEN r
    ELSE Windows_Strip(Window(r, triplets[i], triplets[i + 1], triplets[i + 2],
                              n, error_on_invalid_reference_number),
                       triplets, i + 1, n, error_on_invalid_reference_number)

RECURSIVE Windows(_, _, _, _, _)
\* The windows i, i + 1, ... of triplets[1..], until one returns or panics.
\* Window i is (triplets[i + 1], triplets[i + 2]).
Windows(r, triplets, i, n, error_on_invalid_reference_number) ==
    IF r.kind # "ok" \/ i + 2 > Len(triplets) THEN r
    ELSE Windows(Window(r, triplets[1], triplets[i + 1], triplets[i + 2], n,
                        error_on_invalid_reference_number),
                 triplets, i + 1, n, error_on_invalid_reference_number)

\* HandleF with the windows taken over triplets, not triplets[1..]: two
\* corners a, b make the window (a, b) and so the triangle (a, a, b).
HandleF_AllWindows(c, line, n, error_on_invalid_reference_number) ==
    LET triplets == [k \in 1..(Len(line) - 1) |-> SplitSlash(line[k + 1])]
    IN  IF triplets = <<>> THEN Continue(c)
        ELSE Windows(Continue(c), <<triplets[1]>> \o triplets, 1, n,
                     error_on_invalid_reference_number)

HandleF(c, line, n, error_on_invalid_reference_number) ==
    LET triplets == [k \in 1..(Len(line) - 1) |-> SplitSlash(line[k + 1])]
    IN  IF triplets = <<>> THEN Continue(c)
        ELSE Windows(Continue(c), triplets, 1, n,
                     error_on_invalid_reference_number)

\* HandleObject that starts the object with empty diagnostic sets.
HandleObject_ClearsWarnings(c, line, n) ==
    Continue([c EXCEPT !.state = start_object(c.state, NextPart(line, 1), TRUE),
                       !.default_uvs = {},
                       !.default_normals = {}])

HandleObject(c, line, n) ==
    Continue([c EXCEPT !.state = start_object(c.state, NextPart(line, 1), TRUE)])

\* HandleOther reporting the zero-based index that enumerate() yields.
HandleOther_ZeroBased(c, line, n, error_on_unsupported_data_types) ==
    IF error_on_unsupported_data_types
    THEN Return(c, UnsupportedCommand(n - 1, line[1]))
    ELSE Continue(c)

HandleOther(c, line, n, error_on_unsupported_data_types) ==
    IF error_on_unsupported_data_types
    THEN Return(c, UnsupportedCommand(n, line[1]))
    ELSE Continue(c)

\* `match command`, after the blank lines were skipped.
ParseLine(c, line, n, opts) ==
    IF line = <<>> THEN Continue(c)
    ELSE CASE line[1] = "v" -> HandleV(c, line, n)
           [] line[1] = "vn" -> HandleVn(c, line, n)
           [] line[1] = "vt" -> HandleVt(c, line, n)
           [] line[1] = "f" ->
                HandleF(c, line, n, opts.error_on_invalid_reference_number)
           [] line[1] \in {"o", "g"} -> HandleObject(c, line, n)
           [] OTHER ->
                HandleOther(c, line, n, opts.error_on_unsupported_data_types)

-----------------------------------------------------------------------------
(* Result assembly *)

NoGroup == [kind |-> "none", name |-> None, children |-> <<>>]

\* Rc::new(Object3d::new(Group))
Object3d_new_group == [kind |-> "Group", name |-> None, children |-> <<>>]

\* Mesh::new(Rc::new(buffer_geometry)).into(), then the name is set.
MeshOf(object) ==
    [kind |-> "Mesh", name |-> object.name, children |-> <<>>,
     geometry |-> [position |-> object.geometry.position,
                   normal |-> object.geometry.normal,
                   uv |-> object.geometry.uv,
                   indices |-> None]]

\* Object3d::add(parent, child): the child is pushed onto parent's children.
Object3d_add(p, child) == [p EXCEPT !.children = Append(@, child)]

RECURSIVE Assemble_KeepsEmpty(_, _, _)
\* Assemble without the skip of the objects that have no face.
Assemble_KeepsEmpty(root, objects, k) ==
    IF k > Len(objects) THEN root
    ELSE Assemble_KeepsEmpty(Object3d_add(root, MeshOf(objects[k])), objects, k + 1)

RECURSIVE Assemble(_, _, _)
\* state.objects.iter().for_each(...) from object k on.
Assemble(root, objects, k) ==
    IF k > Len(objects) THEN root
    ELSE IF objects[k].geometry.position = <<>>
         THEN Assemble(root, objects, k + 1)
         ELSE Assemble(Object3d_add(root, MeshOf(objects[k])), objects, k + 1)

-----------------------------------------------------------------------------
(* The scene graph: Object3d, BfsIterator, DfsIterator *)

\* The Rc<Object3d> values of the scene, each made by Object3d::new.
Nodes == {"a", "b", "c", "d"}

\* Object3d::new for every node: no parent, no children.  The local and
\* world matrices are the identity and no action of the model transforms a
\* node, so they stay the identity and are left out.
NewScene ==
    /\ parent = [n \in Nodes |-> None]
    /\ children = [n \in Nodes |-> <<>>]
    /\ hung = FALSE
    /\ iterator = [kind |-> "none", pending |-> <<>>, root |-> None, done |-> FALSE]
    /\ yielded = <<>>

Reverse(seq) == [i \in 1..Len(seq) |-> seq[Len(seq) + 1 - i]]

ChildSet(object) == {children[object][i] : i \in DOMAIN children[object]}

RECURSIVE Closure(_, _)
\* The nodes within k child links of the nodes of `seen`.
Closure(seen, k) ==
    IF k = 0 THEN seen
    ELSE Closure(seen \cup UNION {ChildSet(n) : n \in seen}, k - 1)

\* What a traversal from `object` can come to, `object` included.
Reachable(object) == Closure({object}, Cardinality(Nodes))

\* The number of calls of add made so far: no child is ever removed.
RECURSIVE Adds(_)
Adds(nodes) ==
    IF nodes = {} THEN 0
    ELSE LET n == CHOOSE n \in nodes : TRUE
         IN  Len(children[n]) + Adds(nodes \ {n})

\* Object3d::add(parent, child).  The loop over bfs(child) that refreshes
\* the world matrices ends when no cycle can be reached from child, which
\* is when the new parent is not reachable from it; otherwise the queue
\* never empties and add does not return.
Add(p, child) ==
    /\ ~hung
    /\ iterator.kind = "none"
    /\ Adds(Nodes) < MaxAdds
    /\ parent' = [parent EXCEPT ![child] = Some(p)]
    /\ children' = [children EXCEPT ![p] = Append(@, child)]
    /\ hung' = (p \in Reachable(child))
    /\ UNCHANGED <<iterator, yielded>>
    /\ UNCHANGED parse_vars

\* Object3d::bfs(object)
Bfs(object) ==
    /\ ~hung
    /\ iterator.kind = "none"
    /\ iterator' = [kind |-> "bfs", pending |-> <<object>>, root |-> Some(object),
                    done |-> FALSE]
    /\ yielded' = <<>>
    /\ UNCHANGED <<parent, children, hung>>
    /\ UNCHANGED parse_vars

\* Object3d::dfs(object)
Dfs(object) ==
    /\ ~hung
    /\ iterator.kind = "none"
    /\ iterator' = [kind |-> "dfs", pending |-> <<object>>, root |-> Some(object),
                    done |-> FALSE]
    /\ yielded' = <<>>
    /\ UNCHANGED <<parent, children, hung>>
    /\ UNCHANGED parse_vars

\* BfsIterator::next with the queue after the children of the node popped
\* from the front were pushed at the back.
BfsIterator_queue(queue) == Tail(queue) \o children[Head(queue)]

\* BfsIterator::next: None, once, when the queue is empty.
BfsIterator_next ==
    /\ iterator.kind = "bfs"
    /\ ~iterator.done
    /\ IF iterator.pending = <<>>
       THEN /\ iterator' = [iterator EXCEPT !.done = TRUE]
            /\ UNCHANGED yielded
       ELSE /\ iterator' = [iterator EXCEPT
                                !.pending = BfsIterator_queue(iterator.pending)]
            /\ yielded' = Append(yielded, Head(iterator.pending))
    /\ UNCHANGED <<parent, children, hung>>
    /\ UNCHANGED parse_vars

\* The mutant of the stack below: the children are pushed in their order.
DfsIterator_stack_Forward(stack) ==
    SubSeq(stack, 1, Len(stack) - 1) \o children[stack[Len(stack)]]

\* DfsIterator::next with the stack (top last) after the children of the
\* node popped were pushed in reverse.
DfsIterator_stack(stack) ==
    SubSeq(stack, 1, Len(stack) - 1) \o Reverse(children[stack[Len(stack)]])

\* DfsIterator::next: None, once, when the stack is empty.
DfsIterator_next ==
    /\ iterator.kind = "dfs"
    /\ ~iterator.done
    /\ IF iterator.pending = <<>>
       THEN /\ iterator' = [iterator EXCEPT !.done = TRUE]
            /\ UNCHANGED yielded
       ELSE /\ iterator' = [iterator EXCEPT
                                !.pending = DfsIterator_stack(iterator.pending)]
            /\ yielded' = Append(yielded, iterator.pending[Len(iterator.pending)])
    /\ UNCHANGED <<parent, children, hung>>
    /\ UNCHANGED parse_vars

-----------------------------------------------------------------------------
(* The state machine *)

Options == [error_on_unsupported_data_types : BOOLEAN,
            error_on_invalid_reference_number : BOOLEAN]

Init ==
    /\ options \in Options
    /\ overflow_checks \in BOOLEAN
    /\ state = ObjParseState_new
    /\ default_uvs = {}
    /\ default_normals = {}
    /\ line_num = 0
    /\ outcome = "running"
    /\ error = NoError
    /\ group = NoGroup
    /\ NewScene

Ctx == [state |-> state, default_uvs |-> default_uvs,
        default_normals |-> default_normals]

\* One iteration of `for (line_num, line) in text.lines().enumerate()`.
Consume(line) ==
    /\ outcome = "running"
    /\ line_num < MaxLines
    /\ \E r \in {ParseLine(Ctx, line, line_num + 1, options)} :
        /\ line_num' = line_num + 1
        /\ state' = r.state
        /\ default_uvs' = r.default_uvs
        /\ default_normals' = r.default_normals
        /\ outcome' = IF r.kind = "ok" THEN "running" ELSE r.kind
        /\ error' = r.error
    /\ UNCHANGED <<options, overflow_checks, group>>
    /\ UNCHANGED scene_vars

LineBlank == \E line \in BlankLines : Consume(line)

LineV ==
    /\ Len(state.vertices) < 3 * MaxPositions
    /\ \E line \in VLines : Consume(line)

LineVn ==
    /\ Len(state.normals) < 3 * MaxNormals
    /\ \E line \in VnLines : Consume(line)

LineVt ==
    /\ Len(state.uvs) < 2 * MaxTexcoords
    /\ \E line \in VtLines : Consume(line)

LineF == \E line \in FaceLines : Consume(line)

LineObject ==
    /\ Len(state.objects) < MaxObjects
    /\ \E line \in ObjectLines : Consume(line)

LineOther == \E line \in OtherLines : Consume(line)

\* The end of the document: the objects are taken out of the state and the
\* non-empty ones become the children of the root group.
Finish ==
    /\ outcome = "running"
    /\ group' = Assemble(Object3d_new_group, state.objects, 1)
    /\ state' = [state EXCEPT
                    !.objects = [k \in DOMAIN state.objects |-> ObjObject_default]]
    /\ outcome' = "ok"
    /\ UNCHANGED <<options, overflow_checks, default_uvs, default_normals,
                   line_num, error>>
    /\ UNCHANGED scene_vars

Next == \/ LineBlank
        \/ LineV
        \/ LineVn
        \/ LineVt
        \/ LineF
        \/ LineObject
        \/ LineOther
        \/ Finish

Spec == Init /\ [][Next]_vars

-----------------------------------------------------------------------------
(* The state machine of the scene graph: no document is parsed. *)

SceneInit ==
    /\ options = [error_on_unsupported_data_types |-> FALSE,
                  error_on_invalid_reference_number |-> FALSE]
    /\ overflow_checks = FALSE
    /\ state = ObjParseState_new
    /\ default_uvs = {}
    /\ default_normals = {}
    /\ line_num = 0
    /\ outcome = "running"
    /\ error = NoError
    /\ group = NoGroup
    /\ NewScene

AddAny == \E p \in Nodes, child \in Nodes : Add(p, child)

BfsAny == \E object \in Nodes : Bfs(object)

DfsAny == \E object \in Nodes : Dfs(object)

SceneNext == \/ AddAny
             \/ BfsAny
             \/ DfsAny
             \/ BfsIterator_next
             \/ DfsIterator_next

SceneSpec == SceneInit /\ [][SceneNext]_vars

-----------------------------------------------------------------------------
(* Vocabulary of the properties *)

\* The reference rule of the format: r > 0 names entry r, r < 0 names entry
\* count + r + 1, both within 1..count; 0 names nothing.
InRange(r, count) == (r > 0 /\ r <= count) \/ (r < 0 /\ -r <= count)

\* One-based entry a reference in range names.
EntryOf(r, count) == IF r > 0 THEN r ELSE count + r + 1

PositionCount(s) == Len(s.vertices) \div 3

NormalCount(s) == Len(s.normals) \div 3

TexcoordCount(s) == Len(s.uvs) \div 2

Running == outcome = "running" /\ line_num < MaxLines

Strict == options.error_on_invalid_reference_number

\* The corners of an f line, split.
TripletsOf(line) == [k \in 1..(Len(line) - 1) |-> SplitSlash(line[k + 1])]

\* What window k of an f line does when it is run alone on the state the
\* line finds.
WindowAlone(line, k) ==
    LET triplets == TripletsOf(line)
    IN  Window(Continue(Ctx), triplets[1], triplets[k + 1], triplets[k + 2],
               line_num + 1, Strict)

WindowCount(line) == IF Len(line) - 1 >= 3 THEN Len(line) - 3 ELSE 0

-----------------------------------------------------------------------------
(* C1: for every document and every option combination parse ends with an  *)
(* ObjParseResult or with one ObjParseError, never with an abort that      *)
(* yields neither.                                                         *)

C1_ResultOrError == outcome # "panic"

-----------------------------------------------------------------------------
(* C2: fail-fast.  An error that parse returns carries the number of the   *)
(* last line consumed, nothing is processed after parse has ended, and an  *)
(* f line of several fan windows ends as its first window that does not    *)
(* complete does, with that window's error when it is one.                 *)

FanLines == {line \in FaceLines : WindowCount(line) > 1}

C2_FirstFailing(line) ==
    LET r == HandleF(Ctx, line, line_num + 1, Strict)
        alone == [k \in 1..WindowCount(line) |-> WindowAlone(line, k)]
        bad == {k \in DOMAIN alone : alone[k].kind # "ok"}
    IN  IF bad = {} THEN r.kind = "ok"
        ELSE LET first == CHOOSE k \in bad : \A j \in bad : k <= j
             IN  /\ r.kind = alone[first].kind
                 /\ r.error = alone[first].error

\* C2: an error carries the number of the last line consumed, parse takes
\* no step after it has ended, and every line of several fan windows ends
\* as its first window that does not complete.
C2_FailFast ==
    /\ outcome = "err" => error.line_num = line_num
    /\ outcome # "running" => ~ENABLED Next
    /\ Running => \A line \in FanLines : C2_FirstFailing(line)

\* The second fan triangle of an f line failed on its normals after the
\* first one was committed.
C2_Witness ==
    /\ outcome = "err"
    /\ error.type = "InvalidReferenceNumber"
    /\ error.data_type = "vn"
    /\ error.line_num = line_num
    /\ Len(CurrentObject(state).geometry.normal) = 9
    /\ Len(CurrentObject(state).geometry.position) = 18

-----------------------------------------------------------------------------
(* Vocabulary of the claims about one triangle: the f lines of three       *)
(* corners, which have one fan window.                                     *)

TriangleLines == {line \in FaceLines : Len(line) = 4}

\* The k-th references (1: v, 2: vt, 3: vn) of the three corners of a
\* triangle line: Some(<<r1, r2, r3>>) when all three are there and parse.
RefsOf(line, k) ==
    LET triplets == TripletsOf(line)
    IN  Triple(triplets[1], triplets[2], triplets[3], k)

AllInRange(refs, count) == \A k \in 1..3 : InRange(refs[k], count)

\* The reference of the first corner, in corner order, that is out of range.
FirstOutOfRange(refs, count) ==
    refs[CHOOSE k \in 1..3 : /\ ~InRange(refs[k], count)
                             /\ \A j \in 1..(k - 1) : InRange(refs[j], count)]

\* What parse does with the line on the state it has reached.
LineResult(line) == ParseLine(Ctx, line, line_num + 1, options)

\* The three pool entries that in-range references name, concatenated.
Entries(pool, width, refs) ==
    LET entry(r) == SubSeq(pool, width * (EntryOf(r, Len(pool) \div width) - 1) + 1,
                           width * EntryOf(r, Len(pool) \div width))
    IN  entry(refs[1]) \o entry(refs[2]) \o entry(refs[3])

-----------------------------------------------------------------------------
(* C3: under both values of error_on_invalid_reference_number, a triangle  *)
(* whose three v references parse and of which one at least is out of      *)
(* range of the position pool makes parse return InvalidReferenceNumber    *)
(* with data_type "v", the line's number and the first such reference,     *)
(* whatever its vt and vn segments are.                                    *)

C3_VertexOutOfRange ==
    Running =>
        \A line \in TriangleLines :
            LET v == RefsOf(line, 1)
            IN  (IsSome(v) /\ ~AllInRange(v[1], PositionCount(state))) =>
                    /\ LineResult(line).kind = "err"
                    /\ LineResult(line).error =
                           InvalidReferenceNumber(
                               line_num + 1, "v",
                               FirstOutOfRange(v[1], PositionCount(state)))

-----------------------------------------------------------------------------
(* C4: with error_on_invalid_reference_number set, a triangle whose three  *)
(* v references are in range and whose three vt references parse, one at   *)
(* least out of range of the texture-coordinate pool, makes parse return   *)
(* InvalidReferenceNumber with data_type "vt", the line's number and the   *)
(* first such reference.                                                   *)

-----------------------------------------------------------------------------
(* C5: with error_on_invalid_reference_number clear, a triangle whose      *)
(* three v references are in range and whose three vt references parse,    *)
(* one at least out of range of the texture-coordinate pool, raises no     *)
(* error: six zeros and nothing else are appended to the current object's  *)
(* uv, the first such reference joins default_uvs, and the loop goes on.   *)

C5_LenientUvOutOfRange ==
    (Running /\ ~Strict) =>
        \A line \in TriangleLines :
            LET v == RefsOf(line, 1)
                vt == RefsOf(line, 2)
                r == LineResult(line)
            IN  (/\ IsSome(v) /\ AllInRange(v[1], PositionCount(state))
                 /\ IsSome(vt) /\ ~AllInRange(vt[1], TexcoordCount(state))) =>
                    /\ r.kind = "ok"
                    /\ CurrentObject(r.state).geometry.uv =
                           CurrentObject(state).geometry.uv \o <<0, 0, 0, 0, 0, 0>>
                    /\ r.default_uvs =
                           default_uvs \cup
                               {FirstOutOfRange(vt[1], TexcoordCount(state))}

-----------------------------------------------------------------------------
(* C6: under both values of error_on_invalid_reference_number, a triangle  *)
(* of which one corner at least has no vt segment, an empty one or one     *)
(* that is no integer gets six zeros as uv once its positions are in,      *)
(* adds nothing to default_uvs and never ends in a "vt" error.  An f line  *)
(* adds to default_uvs only vt references of its own that parse and are    *)
(* out of range when the line is processed.                                *)

\* The vt references of an f line that parse.
UvRefsOf(line) ==
    {parse_i32(Segment(TripletsOf(line)[k], 2)[1])[1] :
        k \in {j \in 1..(Len(line) - 1) :
                  IsSome(AndThenI32(Segment(TripletsOf(line)[j], 2)))}}

\* C6: a triangle with a vt segment missing or unparseable gets six zeros,
\* adds nothing to default_uvs and raises no "vt" error; a line adds to
\* default_uvs only its own parseable, out-of-range vt references.
C6_UvPerTriangle ==
    Running =>
        /\ \A line \in TriangleLines :
            LET v == RefsOf(line, 1)
                r == LineResult(line)
            IN  (IsSome(v) /\ ~IsSome(RefsOf(line, 2))) =>
                    /\ r.default_uvs = default_uvs
                    /\ r.kind = "err" => r.error.data_type # "vt"
                    /\ AllInRange(v[1], PositionCount(state)) =>
                           CurrentObject(r.state).geometry.uv =
                               CurrentObject(state).geometry.uv
                                   \o <<0, 0, 0, 0, 0, 0>>
        /\ \A line \in FaceLines :
            \A member \in LineResult(line).default_uvs \ default_uvs :
                /\ member \in UvRefsOf(line)
                /\ ~InRange(member, TexcoordCount(state))

\* A triangle without vt segments was committed while the texture-coordinate
\* pool held an entry.
C6_Witness ==
    /\ outcome = "running"
    /\ state.uvs # <<>>
    /\ CurrentObject(state).geometry.uv = <<0, 0, 0, 0, 0, 0>>
    /\ Len(CurrentObject(state).geometry.normal) = 9
    /\ default_uvs = {}

-----------------------------------------------------------------------------
(* C7: a line whose first token is none of v, vn, vt, f, o, g makes parse  *)
(* return UnsupportedCommand with the line's number and that token when    *)
(* error_on_unsupported_data_types is set; when it is clear the line       *)
(* leaves the pools, the objects, the current object and the diagnostic    *)
(* sets as they were, so that the lines after it find the state they would *)
(* have found without it.                                                  *)

C7_UnsupportedCommand ==
    Running =>
        \A line \in OtherLines :
            LET r == LineResult(line)
            IN  IF options.error_on_unsupported_data_types
                THEN /\ r.kind = "err"
                     /\ r.error.type = "UnsupportedCommand"
                     /\ r.error.line_num = line_num + 1
                     /\ r.error.command = line[1]
                ELSE /\ r.kind = "ok"
                     /\ r.state = state
                     /\ r.default_uvs = default_uvs
                     /\ r.default_normals = default_normals

\* A usemtl line after a committed face ended parse with its number and
\* its first token.
C7_Witness ==
    /\ outcome = "err"
    /\ error.type = "UnsupportedCommand"
    /\ error.command = "usemtl"
    /\ error.line_num = 4
    /\ CurrentObject(state).geometry.position # <<>>

-----------------------------------------------------------------------------
(* C8: a document with a committed face before any o or g line, then       *)
(* `o A`, then one more committed face yields two meshes under the root:   *)
(* an anonymous one that holds the faces before `o A` and one named "A"    *)
(* that holds the faces after it.  When no face precedes `o A` the result  *)
(* has the mesh named "A" alone.                                           *)

\* The state has seen no o or g line.
Undeclared == Len(state.objects) = 1 /\ ~CurrentObject(state).from_declaration

\* The rest of a document: the lines of `rest` from the parse c on, then the
\* assembly of the result.  <<>> stands for a parse that did not end well.
RECURSIVE GroupAfter(_, _, _)
GroupAfter(c, rest, n) ==
    IF rest = <<>> THEN Some(Assemble(Object3d_new_group, c.state.objects, 1))
    ELSE LET r == ParseLine(c, rest[1], n, options)
         IN  IF r.kind # "ok" THEN None
             ELSE GroupAfter([state |-> r.state, default_uvs |-> r.default_uvs,
                              default_normals |-> r.default_normals],
                             Tail(rest), n + 1)

\* The streams that the line adds to the current object of a fresh state
\* with the pools of the state reached.
GeometryOf(line) ==
    LET fresh == [Ctx EXCEPT !.state.objects = <<ObjObject_default>>,
                             !.state.current_object = 1]
    IN  CurrentObject(ParseLine(fresh, line, line_num + 1, options).state).geometry

\* C8: faces, `o A`, faces: an anonymous mesh and a mesh "A"; `o A` with
\* no face before it: the mesh "A" alone.
C8_Segmentation ==
    (Running /\ Undeclared) =>
        \A line \in PlainFaceLines :
            LET before == CurrentObject(state).geometry
                after == GeometryOf(line)
                result == GroupAfter(Ctx, << <<"o", "A">>, line >>, line_num + 1)
            IN  (IsSome(result) /\ after.position # <<>>) =>
                    LET meshes == result[1].children
                    IN  IF before.position # <<>>
                        THEN /\ Len(meshes) = 2
                             /\ meshes[1].name = None
                             /\ meshes[1].geometry.position = before.position
                             /\ meshes[2].name = Some("A")
                             /\ meshes[2].geometry.position = after.position
                        ELSE /\ Len(meshes) = 1
                             /\ meshes[1].name = Some("A")
                             /\ meshes[1].geometry.position = after.position

-----------------------------------------------------------------------------
(* C9: an o or g line on a current object that is not declared renames it  *)
(* in place: it takes the line's name and becomes declared, the number of  *)
(* objects stays and its geometry is kept.  On a declared current object   *)
(* the line appends an object with that name, declared and with empty      *)
(* streams, which becomes current; the objects before it stay as they      *)
(* were.  The first o or g line of a document adds no object.              *)

-----------------------------------------------------------------------------
(* C10: fan triangulation.  An f line of N >= 3 corners whose v and vn     *)
(* references all parse and are in range commits the N - 2 triangles       *)
(* (corner 0, corner i, corner i + 1), i = 1 .. N - 2, in that order: the  *)
(* current object's position grows by the 9 * (N - 2) pool values of those *)
(* corners, nothing shared between triangles.                              *)

\* The k-th reference of every corner of an f line, None where it is absent
\* or does not parse.
CornerRefs(line, k) ==
    [j \in 1..(Len(line) - 1) |-> AndThenI32(Segment(TripletsOf(line)[j], k))]

\* Every corner has a k-th reference, in range of a pool of `count` entries.
CornersInRange(line, k, count) ==
    \A j \in 1..(Len(line) - 1) :
        /\ IsSome(CornerRefs(line, k)[j])
        /\ InRange(CornerRefs(line, k)[j][1], count)

\* The number of corners of the triangles of a fan whose vt references all
\* parse with one at least out of range.
UvOutOfRangeWindows(line) ==
    {i \in 1..WindowCount(line) :
        LET vt == Triple(TripletsOf(line)[1], TripletsOf(line)[i + 1],
                         TripletsOf(line)[i + 2], 2)
        IN  IsSome(vt) /\ ~AllInRange(vt[1], TexcoordCount(state))}

RECURSIVE FanPositions(_, _, _)
\* The positions of the triangles i, i + 1, ... of the fan over `refs`.
FanPositions(pool, refs, i) ==
    IF i + 2 > Len(refs) THEN <<>>
    ELSE Entries(pool, 3, <<refs[1][1], refs[i + 1][1], refs[i + 2][1]>>)
             \o FanPositions(pool, refs, i + 1)

C10_Commits(line) ==
    LET r == LineResult(line)
        was == CurrentObject(state).geometry
        is == CurrentObject(r.state).geometry
    IN  /\ r.kind = "ok"
        /\ is.position =
               was.position \o FanPositions(state.vertices, CornerRefs(line, 1), 1)
        /\ Len(is.position) = Len(was.position) + 9 * WindowCount(line)
        /\ Len(is.normal) = Len(was.normal) + 9 * WindowCount(line)
        /\ Len(is.uv) = Len(was.uv) + 6 * WindowCount(line)

-----------------------------------------------------------------------------
(* C11: an f line of 0, 1 or 2 corners, whatever the corners are, raises   *)
(* no error and leaves the pools, the objects, the current object and      *)
(* both diagnostic sets as they were, under every option combination.      *)

ShortFaceLines == {line \in FaceLines : Len(line) - 1 < 3}

C11_ShortFaceSkipped ==
    Running => \A line \in ShortFaceLines : LineResult(line) = Continue(Ctx)

\* A face is committed, and a line of two corners out of range of the pools
\* is skipped there.
C11_Witness ==
    /\ Running
    /\ CurrentObject(state).geometry.position # <<>>
    /\ state.normals # <<>>
    /\ <<"f", "1/9/1", "1/1/9">> \in ShortFaceLines
    /\ LineResult(<<"f", "1/9/1", "1/1/9">>).state = state

-----------------------------------------------------------------------------
(* C12: a negative reference r with -count <= r <= -1 names the entry at   *)
(* zero-based index count + r of its pool, count being the pool's entry    *)
(* count when the f line is processed; a v, vn or vt line that comes later *)
(* leaves the committed faces as they are.                                 *)

HasNegative(refs) == IsSome(refs) /\ \E k \in 1..3 : refs[1][k] < 0

\* The triangle's three v and vn references, and its vt references when it
\* has them, are in range, and one at least is negative.
C12_Relative(line) ==
    LET v == RefsOf(line, 1)
        vt == RefsOf(line, 2)
        vn == RefsOf(line, 3)
    IN  /\ IsSome(v) /\ AllInRange(v[1], PositionCount(state))
        /\ IsSome(vn) /\ AllInRange(vn[1], NormalCount(state))
        /\ IsSome(vt) => AllInRange(vt[1], TexcoordCount(state))
        /\ HasNegative(v) \/ HasNegative(vt) \/ HasNegative(vn)

C12_Resolved(line) ==
    LET before == CurrentObject(state).geometry
        r == LineResult(line)
        after == CurrentObject(r.state).geometry
        vt == RefsOf(line, 2)
    IN  /\ r.kind = "ok"
        /\ after.position =
               before.position \o Entries(state.vertices, 3, RefsOf(line, 1)[1])
        /\ after.normal =
               before.normal \o Entries(state.normals, 3, RefsOf(line, 3)[1])
        /\ IsSome(vt) => after.uv = before.uv \o Entries(state.uvs, 2, vt[1])

\* C12: negative references in range resolve against the pools as they are
\* when the f line is processed, and later v, vn and vt lines change no
\* committed face.
C12_NegativeReference ==
    Running =>
        /\ \A line \in TriangleLines : C12_Relative(line) => C12_Resolved(line)
        /\ \A line \in VLines \cup VnLines \cup VtLines :
               LineResult(line).state.objects = state.objects

\* `f -1//-1 -2//-1 1//1` after two v lines and a vn line: -1 named the
\* second position, -2 the first.
C12_Witness ==
    /\ state.vertices = <<1, 2, 3, 4, 5, 6>>
    /\ CurrentObject(state).geometry.position = <<4, 5, 6, 1, 2, 3, 1, 2, 3>>
    /\ CurrentObject(state).geometry.normal = <<7, 8, 9, 7, 8, 9, 7, 8, 9>>

-----------------------------------------------------------------------------
(* C13: while parse has not failed, the position pool holds one entry for  *)
(* every v line processed, in document order with that line's x, y and z,  *)
(* and no entry is ever removed or rewritten; likewise the normal pool     *)
(* with the vn lines and the texture-coordinate pool with the vt lines.    *)

\* The line has `count` arguments that are numbers.
HasValues(line, count) ==
    \A k \in 1..count : IsSome(AndThenF32(NextPart(line, k)))

\* The first `count` arguments of such a line, as numbers.
Values(line, count) == [k \in 1..count |-> AndThenF32(NextPart(line, k))[1]]

\* One step of parse: a line of `lines` that succeeds appends its `width`
\* values to the pool, every other step leaves the pool as it is.
C13_Step(lines, step, before, after, width) ==
    IF step /\ outcome' = "running"
    THEN \E line \in lines : /\ HasValues(line, width)
                              /\ after = before \o Values(line, width)
    ELSE after = before

C13_PoolGrowth ==
    /\ [](outcome = "running" =>
            /\ Len(state.vertices) % 3 = 0
            /\ Len(state.normals) % 3 = 0
            /\ Len(state.uvs) % 2 = 0
            /\ PositionCount(state) + NormalCount(state) + TexcoordCount(state)
                   <= line_num)
    /\ [][/\ C13_Step(VLines, LineV, state.vertices, state'.vertices, 3)
          /\ C13_Step(VnLines, LineVn, state.normals, state'.normals, 3)
          /\ C13_Step(VtLines, LineVt, state.uvs, state'.uvs, 2)]_vars

\* Two v lines, a vn line and a vt line were processed.
C13_Witness ==
    /\ outcome = "running"
    /\ line_num = 4
    /\ state.vertices = <<4, 5, 6, 1, 2, 3>>
    /\ state.normals = <<7, 8, 9>>
    /\ state.uvs = <<10, 11>>

-----------------------------------------------------------------------------
(* C14: a v, vn or vt line of which a required argument (three for v and   *)
(* vn, two for vt) is absent or is not a number makes parse return         *)
(* InvalidSyntax with the line's number, expected_type "f32" and           *)
(* expected_num_args 3..=4 for v, 3..=3 for vn, 2..=3 for vt, and appends  *)
(* nothing.                                                                *)

C14_Rejected(line, required, lo, hi) ==
    ~HasValues(line, required) =>
        /\ LineResult(line).kind = "err"
        /\ LineResult(line).error = InvalidSyntax(line_num + 1, lo, hi)
        /\ LineResult(line).error.expected_type = "f32"
        /\ LineResult(line).state = state

C14_InvalidSyntax ==
    Running =>
        /\ \A line \in VLines : C14_Rejected(line, 3, 3, 4)
        /\ \A line \in VnLines : C14_Rejected(line, 3, 3, 3)
        /\ \A line \in VtLines : C14_Rejected(line, 2, 2, 3)

\* A vt line was rejected on line 3, after a v and a vn line.
C14_Witness ==
    /\ outcome = "err"
    /\ error.type = "InvalidSyntax"
    /\ error.expected_num_args = <<2, 3>>
    /\ error.line_num = 3
    /\ state.vertices # <<>>
    /\ state.normals # <<>>
    /\ state.uvs = <<>>

-----------------------------------------------------------------------------
(* C15: what follows the required arguments of a v, vn or vt line never    *)
(* changes the outcome: the line does what the line cut after x y z        *)
(* (i j k, u v) does, whether the further tokens are numbers or not.       *)

C15_AsCut(line, required) ==
    Len(line) - 1 > required =>
        LineResult(line) = LineResult(SubSeq(line, 1, required + 1))

C15_ExtraArguments ==
    Running =>
        /\ \A line \in VLines : C15_AsCut(line, 3)
        /\ \A line \in VnLines : C15_AsCut(line, 3)
        /\ \A line \in VtLines : C15_AsCut(line, 2)

\* With a position in the pool, `v 1 2 3 x` appends (1, 2, 3) and
\* `vt 10 11 0 9` appends (10, 11).
C15_Witness ==
    /\ Running
    /\ state.vertices # <<>>
    /\ <<"v", "1", "2", "3", "x">> \in VLines
    /\ LineResult(<<"v", "1", "2", "3", "x">>).kind = "ok"
    /\ LineResult(<<"v", "1", "2", "3", "x">>).state.vertices =
           state.vertices \o <<1, 2, 3>>
    /\ <<"vt", "10", "11", "0", "9">> \in VtLines
    /\ LineResult(<<"vt", "10", "11", "0", "9">>).state.uvs = state.uvs \o <<10, 11>>

-----------------------------------------------------------------------------
(* C16: on success the result is one root group whose children are the     *)
(* pending objects with a non-empty positions stream, one mesh each, once, *)
(* in creation order, with the object's name, positions, normals and uvs   *)
(* and no index buffer; an object without positions, anonymous or named,   *)
(* gives no node.                                                          *)

HasFaces(object) == object.geometry.position # <<>>

\* g is the result group of a parse that ends with the pending `objects`.
C16_Assembled(objects, g) ==
    LET kept == SelectSeq(objects, HasFaces)
    IN  /\ g.kind = "Group"
        /\ g.name = None
        /\ Len(g.children) = Len(kept)
        /\ \A i \in 1..Len(kept) :
               /\ g.children[i].kind = "Mesh"
               /\ g.children[i].children = <<>>
               /\ g.children[i].name = kept[i].name
               /\ g.children[i].geometry.position = kept[i].geometry.position
               /\ g.children[i].geometry.normal = kept[i].geometry.normal
               /\ g.children[i].geometry.uv = kept[i].geometry.uv
               /\ g.children[i].geometry.indices = None

\* The pending objects after the lines of `rest`, <<>> when one of them
\* does not succeed.
RECURSIVE ObjectsAfter(_, _, _)
ObjectsAfter(c, rest, n) ==
    IF rest = <<>> THEN c.state.objects
    ELSE LET r == ParseLine(c, rest[1], n, options)
         IN  IF r.kind # "ok" THEN <<>>
             ELSE ObjectsAfter([state |-> r.state, default_uvs |-> r.default_uvs,
                                default_normals |-> r.default_normals],
                               Tail(rest), n + 1)

\* Documents that go on with two o or g lines and a triangle.
C16_Continuations ==
    { <<o, g, f>> : o \in ObjectLines, g \in ObjectLines,
                    f \in {<<"f", "1//1", "1//1", "1//1">>,
                           <<"f", "1//1", "2//1", "1//1">>} }

\* C16: the group that parse returns at a reached state, and the group it
\* returns three lines later, are assembled as claimed from the pending
\* objects.
C16_Assembly ==
    /\ [][outcome' = "ok" => C16_Assembled(state.objects, group')]_vars
    /\ [](Running =>
            \A rest \in C16_Continuations :
                C16_Assembled(
                    ObjectsAfter(Ctx, rest, line_num + 1),
                    Assemble(Object3d_new_group,
                             ObjectsAfter(Ctx, rest, line_num + 1), 1)))

\* Parse succeeded with one pending object, renamed by `o A` and holding a
\* triangle: the group has the mesh "A" with its streams.
C16_Witness ==
    /\ outcome = "ok"
    /\ Len(state.objects) = 1
    /\ Len(group.children) = 1
    /\ group.children[1].kind = "Mesh"
    /\ group.children[1].name = Some("A")
    /\ group.children[1].geometry.position = <<4, 5, 6, 4, 5, 6, 4, 5, 6>>
    /\ group.children[1].geometry.normal = <<7, 8, 9, 7, 8, 9, 7, 8, 9>>
    /\ group.children[1].geometry.indices = None

-----------------------------------------------------------------------------
(* Vocabulary of C17 and C18: the triangles whose v references are in      *)
(* range, whose vt references are absent or in range, and whose three vn   *)
(* references parse with one at least out of range of the normal pool.     *)

NormalOutOfRange(line) ==
    LET v == RefsOf(line, 1)
        vt == RefsOf(line, 2)
        vn == RefsOf(line, 3)
    IN  /\ IsSome(v) /\ AllInRange(v[1], PositionCount(state))
        /\ IsSome(vt) => AllInRange(vt[1], TexcoordCount(state))
        /\ IsSome(vn) /\ ~AllInRange(vn[1], NormalCount(state))

-----------------------------------------------------------------------------
(* C17: with error_on_invalid_reference_number clear, such a triangle      *)
(* raises no error: a default normal of nine floats is appended to the     *)
(* current object's normal, the first out-of-range reference joins         *)
(* default_normals, and the loop goes on.                                  *)

C17_LenientNormalOutOfRange ==
    (Running /\ ~Strict) =>
        \A line \in TriangleLines :
            LET r == LineResult(line)
            IN  NormalOutOfRange(line) =>
                    /\ r.kind = "ok"
                    /\ Len(CurrentObject(r.state).geometry.normal) =
                           Len(CurrentObject(state).geometry.normal) + 9
                    /\ r.default_normals =
                           default_normals \cup
                               {FirstOutOfRange(RefsOf(line, 3)[1], NormalCount(state))}

-----------------------------------------------------------------------------
(* C18: with error_on_invalid_reference_number set, such a triangle makes  *)
(* parse return InvalidReferenceNumber with data_type "vn", the line's     *)
(* number and the first out-of-range vn reference.                         *)

C18_StrictNormalOutOfRange ==
    (Running /\ Strict) =>
        \A line \in TriangleLines :
            NormalOutOfRange(line) =>
                /\ LineResult(line).kind = "err"
                /\ LineResult(line).error =
                       InvalidReferenceNumber(
                           line_num + 1, "vn",
                           FirstOutOfRange(RefsOf(line, 3)[1], NormalCount(state)))

-----------------------------------------------------------------------------
(* C19: an f line of three corners or more, with v and vn references in    *)
(* range, of which one corner at least has a vt that does not parse, is    *)
(* treated as a line without vt: every fan triangle of the line gets six   *)
(* zeros as uv, the triangles whose own corners all have a vt in range     *)
(* included.                                                               *)

RECURSIVE Zeros(_)
Zeros(n) == IF n = 0 THEN <<>> ELSE <<0>> \o Zeros(n - 1)

C19_PerLine ==
    Running =>
        \A line \in FaceLines :
            (/\ WindowCount(line) >= 1
             /\ CornersInRange(line, 1, PositionCount(state))
             /\ CornersInRange(line, 3, NormalCount(state))
             /\ \E j \in 1..(Len(line) - 1) : ~IsSome(CornerRefs(line, 2)[j])) =>
                /\ LineResult(line).kind = "ok"
                /\ CurrentObject(LineResult(line).state).geometry.uv =
                       CurrentObject(state).geometry.uv
                           \o Zeros(6 * WindowCount(line))
                /\ LineResult(line).default_uvs = default_uvs

-----------------------------------------------------------------------------
(* C20: on a tree built with Object3d::add, bfs(root) yields root and then *)
(* the nodes level by level, siblings in the order they were added;        *)
(* dfs(root) yields root and then the whole subtree of each child before   *)
(* the next child, children in the order they were added.  Each yields     *)
(* every node reachable from root exactly once and then ends.              *)

\* The places where `object` is listed as a child below `root`.
Listings(root, object) ==
    {<<n, i>> \in Reachable(root) \X (1..MaxAdds) :
        i <= Len(children[n]) /\ children[n][i] = object}

\* What hangs below root is a tree: root is nobody's child there and every
\* other node is listed once.
IsTree(root) ==
    \A object \in Reachable(root) :
        Cardinality(Listings(root, object)) = IF object = root THEN 0 ELSE 1

\* The children of the nodes of a level, level order kept.
RECURSIVE NextLevel(_)
NextLevel(level) ==
    IF level = <<>> THEN <<>>
    ELSE children[Head(level)] \o NextLevel(Tail(level))

\* The levels from `level` on, one after the other, at most k of them.
RECURSIVE LevelOrder(_, _)
LevelOrder(level, k) ==
    IF level = <<>> \/ k = 0 THEN <<>>
    ELSE level \o LevelOrder(NextLevel(level), k - 1)

\* The pre-orders of the subtrees of the nodes of `siblings`, one after the
\* other, to depth k.
RECURSIVE PreOrder(_, _)
PreOrder(siblings, k) ==
    IF siblings = <<>> \/ k = 0 THEN <<>>
    ELSE <<Head(siblings)>> \o PreOrder(children[Head(siblings)], k - 1)
                            \o PreOrder(Tail(siblings), k)

IsPrefix(short, long) ==
    /\ Len(short) <= Len(long)
    /\ short = SubSeq(long, 1, Len(short))

C20_Expected ==
    IF iterator.kind = "bfs"
    THEN LevelOrder(<<iterator.root[1]>>, Cardinality(Nodes))
    ELSE PreOrder(<<iterator.root[1]>>, Cardinality(Nodes))

\* C20: on a tree, what bfs has yielded is the beginning of the level order
\* and what dfs has yielded the beginning of the pre-order; when next
\* returns None all of it was yielded, every reachable node once.
C20_Traversal ==
    (iterator.kind # "none" /\ IsTree(iterator.root[1])) =>
        /\ IsPrefix(yielded, C20_Expected)
        /\ yielded # <<>> => yielded[1] = iterator.root[1]
        /\ iterator.done =>
               /\ yielded = C20_Expected
               /\ {yielded[i] : i \in DOMAIN yielded} = Reachable(iterator.root[1])
               /\ Len(yielded) = Cardinality(Reachable(iterator.root[1]))

\* dfs("a") has ended on the tree a -> (b -> d), c.
C20_Witness ==
    /\ iterator.kind = "dfs"
    /\ iterator.done
    /\ iterator.root = Some("a")
    /\ children["a"] = <<"b", "c">>
    /\ children["b"] = <<"d">>
    /\ yielded = <<"a", "b", "d", "c">>

-----------------------------------------------------------------------------
(* C21: in every state of a parse, the state in which an error is returned *)
(* included, every pending object has as many normal floats as position    *)
(* floats and two uv floats for three position floats: a triangle extends  *)
(* the three streams by 9, 6 and 9 floats or none of them.                 *)

StreamsAligned(object) ==
    /\ Len(object.geometry.normal) = Len(object.geometry.position)
    /\ 3 * Len(object.geometry.uv) = 2 * Len(object.geometry.position)

C21_AtomicCommit ==
    \A k \in DOMAIN state.objects : StreamsAligned(state.objects[k])

-----------------------------------------------------------------------------
(* C22: a triangle that fails with InvalidReferenceNumber for data_type    *)
(* "v" leaves the position, uv and normal of the current object as they    *)
(* were before it, also when the corner out of range is the second or the  *)
(* third one.                                                              *)

C22_ValidatedFirst ==
    Running =>
        \A line \in TriangleLines :
            (/\ LineResult(line).kind = "err"
             /\ LineResult(line).error.type = "InvalidReferenceNumber"
             /\ LineResult(line).error.data_type = "v") =>
                CurrentObject(LineResult(line).state).geometry =
                    CurrentObject(state).geometry

-----------------------------------------------------------------------------
(* C23: a fan triangle of which one corner at least has a v reference that *)
(* is empty or no integer is skipped: no error, no change of a stream, a   *)
(* pool or a diagnostic set, whatever its vt and vn references are and     *)
(* under both values of the flag; the other triangles of the f line are    *)
(* processed.                                                              *)

\* The fan triangles of the line that have a corner without a v reference.
Skipped(line) ==
    {k \in 1..WindowCount(line) :
        \E j \in {1, k + 1, k + 2} : ~IsSome(CornerRefs(line, 1)[j])}

C23_SkippedTriangle ==
    Running =>
        \A line \in FaceLines :
            Skipped(line) # {} =>
                /\ \A k \in Skipped(line) : WindowAlone(line, k) = Continue(Ctx)
                /\ WindowCount(line) = 1 => LineResult(line) = Continue(Ctx)
                /\ (WindowCount(line) = 2 /\ Skipped(line) = {1}) =>
                       LineResult(line) = WindowAlone(line, 2)
                /\ (WindowCount(line) = 2 /\ Skipped(line) = {2}) =>
                       LineResult(line) = WindowAlone(line, 1)

\* With the flag set, `f 1/1/1 1/1/1 1/1/1 x/9/9` commits its first
\* triangle and raises nothing for the second.
C23_Witness ==
    /\ Running
    /\ Strict
    /\ state.uvs # <<>>
    /\ <<"f", "1/1/1", "1/1/1", "1/1/1", "x/9/9">> \in FaceLines
    /\ LineResult(<<"f", "1/1/1", "1/1/1", "1/1/1", "x/9/9">>).kind = "ok"
    /\ Len(CurrentObject(
           LineResult(<<"f", "1/1/1", "1/1/1", "1/1/1", "x/9/9">>).state
       ).geometry.position) = 9

-----------------------------------------------------------------------------
(* C24: the index that the resolvers compute with the machine arithmetic   *)
(* is the one of the rule r > 0 -> entry r - 1, r < 0 -> entry count + r;  *)
(* the computation never fails by itself, and for r = 0 and r < -count     *)
(* every component offset is out of bounds of the pool, so the lookup      *)
(* misses and no other entry is read.                                      *)

\* The reference numbers that the tokens of the model parse to.
ReferenceNumbers == {I32Table[t] : t \in DOMAIN I32Table}

C24_Resolves(pool, width, r) ==
    LET count == Len(pool) \div width
        ix == ReferenceToIndex(width, Len(pool), r)
    IN  /\ ~(overflow_checks /\ Chunk(pool, ix, width).overflow)
        /\ IF InRange(r, count)
           THEN /\ ix.value = width * (EntryOf(r, count) - 1)
                /\ Chunk(pool, ix, width).values =
                       Some(SubSeq(pool, width * (EntryOf(r, count) - 1) + 1,
                                   width * EntryOf(r, count)))
           ELSE \A k \in 0..(width - 1) : Component(pool, ix, k).got = None

C24_MachineArithmetic ==
    Running =>
        \A r \in ReferenceNumbers :
            /\ C24_Resolves(state.vertices, 3, r)
            /\ C24_Resolves(state.normals, 3, r)
            /\ C24_Resolves(state.uvs, 2, r)

-----------------------------------------------------------------------------
(* C25: in every state, of every pending object the position length is a   *)
(* multiple of 3 and the uv length a multiple of 2; between two lines of a *)
(* parse that has not failed they are multiples of 9 and of 6.             *)

C25_WholeCorners(object) ==
    /\ Len(object.geometry.position) % 3 = 0
    /\ Len(object.geometry.uv) % 2 = 0

C25_WholeTriangles(object) ==
    /\ Len(object.geometry.position) % 9 = 0
    /\ Len(object.geometry.uv) % 6 = 0

C25_StreamLengths ==
    \A k \in DOMAIN state.objects :
        /\ C25_WholeCorners(state.objects[k])
        /\ outcome = "running" => C25_WholeTriangles(state.objects[k])

\* A triangle failed on its second corner: one position is in, which is a
\* whole corner and no whole triangle.
C25_Witness ==
    /\ outcome = "err"
    /\ error.type = "InvalidReferenceNumber"
    /\ error.data_type = "v"
    /\ Len(CurrentObject(state).geometry.position) = 3
    /\ CurrentObject(state).geometry.uv = <<>>

-----------------------------------------------------------------------------
(* C26: after any sequence of calls of Object3d::add, every node is in the *)
(* children of at most one node, at most once, and that node is the one    *)
(* its parent designates.                                                  *)

\* The places where `object` is listed as a child in the whole scene.
AllListings(object) ==
    {<<n, i>> \in Nodes \X (1..MaxAdds) :
        i <= Len(children[n]) /\ children[n][i] = object}

C26_ExclusiveOwnership ==
    \A object \in Nodes :
        /\ Cardinality(AllListings(object)) <= 1
        /\ \A place \in AllListings(object) : parent[object] = Some(place[1])

-----------------------------------------------------------------------------
(* C27: in every state of a parse the current object is the last of the    *)
(* pending objects, and their number is max(1, number of o and g lines     *)
(* processed): every o or g line after the first appends an object, also   *)
(* when its name is that of an earlier object or is absent, and an o or g  *)
(* line without a name makes its object declared.                          *)

\* The number of o and g lines processed, as the objects record it: none
\* while the first object is not declared, one per object afterwards.
Declarations(s) == IF s.objects[1].from_declaration THEN Len(s.objects) ELSE 0

Max(m, n) == IF m >= n THEN m ELSE n

C27_Counted(s) ==
    /\ s.current_object = Len(s.objects)
    /\ Len(s.objects) = Max(1, Declarations(s))
    /\ \A k \in 2..Len(s.objects) : s.objects[k].from_declaration

-----------------------------------------------------------------------------
(* C28: a v, vn or vt line changes its own pool only; an f line changes    *)
(* only the streams of the current object, by appending, and the           *)
(* diagnostic sets; an o or g line changes no pool, no stream and no       *)
(* diagnostic set.                                                         *)

PoolsKept ==
    /\ state'.vertices = state.vertices
    /\ state'.normals = state.normals
    /\ state'.uvs = state.uvs

WarningsKept ==
    /\ default_uvs' = default_uvs
    /\ default_normals' = default_normals

ObjectsKept ==
    /\ state'.objects = state.objects
    /\ state'.current_object = state.current_object

\* The frame of a v, vn or vt line: the two other pools are kept.
C28_PoolFrame(other1, other2) ==
    /\ other1 /\ other2
    /\ ObjectsKept
    /\ WarningsKept

\* The frame of an f line (and of a blank or ignored line, which changes
\* nothing).
C28_FaceFrame ==
    /\ PoolsKept
    /\ Len(state'.objects) = Len(state.objects)
    /\ state'.current_object = state.current_object
    /\ \A k \in DOMAIN state.objects :
           IF k # state.current_object
           THEN state'.objects[k] = state.objects[k]
           ELSE /\ state'.objects[k].name = state.objects[k].name
                /\ state'.objects[k].from_declaration =
                       state.objects[k].from_declaration
                /\ IsPrefix(state.objects[k].geometry.position,
                            state'.objects[k].geometry.position)
                /\ IsPrefix(state.objects[k].geometry.normal,
                            state'.objects[k].geometry.normal)
                /\ IsPrefix(state.objects[k].geometry.uv,
                            state'.objects[k].geometry.uv)
    /\ default_uvs \subseteq default_uvs'
    /\ default_normals \subseteq default_normals'

\* The frame of an o or g line.
C28_ObjectFrame ==
    /\ PoolsKept
    /\ WarningsKept
    /\ \A k \in DOMAIN state.objects :
           state'.objects[k].geometry = state.objects[k].geometry
    /\ \A k \in DOMAIN state'.objects :
           k \notin DOMAIN state.objects =>
               state'.objects[k].geometry = ObjGeometry_new

C28_Frame ==
    [][outcome' # "ok" =>
        CASE LineV -> C28_PoolFrame(state'.normals = state.normals,
                                    state'.uvs = state.uvs)
          [] LineVn -> C28_PoolFrame(state'.vertices = state.vertices,
                                     state'.uvs = state.uvs)
          [] LineVt -> C28_PoolFrame(state'.vertices = state.vertices,
                                     state'.normals = state.normals)
          [] LineObject -> C28_ObjectFrame
          [] OTHER -> C28_FaceFrame]_vars

\* `o A`, a v and a vn line, then a triangle: the triangle is in the object
\* "A" and the pools are what the v and vn lines made them.
C28_Witness ==
    /\ outcome = "running"
    /\ line_num = 4
    /\ state.objects[1].name = Some("A")
    /\ Len(state.objects[1].geometry.position) = 9
    /\ state.vertices = <<4, 5, 6>>
    /\ state.normals = <<7, 8, 9>>

-----------------------------------------------------------------------------
(* C29: in every result that parse returns with Ok, every mesh under the   *)
(* root has a non-empty position of a length that is a multiple of 9, a    *)
(* normal of the same length and a uv of two thirds of that length.        *)

RenderConsistent(geometry) ==
    /\ geometry.position # <<>>
    /\ Len(geometry.position) % 9 = 0
    /\ Len(geometry.normal) = Len(geometry.position)
    /\ 3 * Len(geometry.uv) = 2 * Len(geometry.position)

C29_RenderConsistent ==
    outcome = "ok" =>
        \A i \in DOMAIN group.children :
            /\ group.children[i].kind = "Mesh"
            /\ RenderConsistent(group.children[i].geometry)

\* The result of a v line, a vn line and an f line of four corners: one
\* mesh of two triangles.
C29_Witness ==
    /\ outcome = "ok"
    /\ Len(group.children) = 1
    /\ Len(group.children[1].geometry.position) = 18
    /\ Len(group.children[1].geometry.normal) = 18
    /\ Len(group.children[1].geometry.uv) = 12

-----------------------------------------------------------------------------
(* C30: on a document of which every non-blank line has a supported        *)
(* command and every vt and vn reference of a triangle that parses is in   *)
(* range, parse ends the same way, with the same error or the same meshes  *)
(* and diagnostic sets, under the four option combinations.                *)

SupportedCommands == {"v", "vn", "vt", "f", "o", "g"}

\* Every k-th reference of the line's corners that parses is in range.
ParseableInRange(line, k, count) ==
    \A j \in 1..(Len(line) - 1) :
        IsSome(CornerRefs(line, k)[j]) => InRange(CornerRefs(line, k)[j][1], count)

\* A line that the documents of the claim may have at the state reached.
Admissible(line) ==
    \/ line = <<>>
    \/ /\ line # <<>>
       /\ line[1] \in SupportedCommands
       /\ line[1] = "f" => /\ ParseableInRange(line, 2, TexcoordCount(state))
                           /\ ParseableInRange(line, 3, NormalCount(state))

C30_Lines ==
    BlankLines \cup VLines \cup VnLines \cup VtLines \cup ObjectLines
        \cup OtherLines \cup FaceLines

\* C30: whatever the options that led to a state, an admissible line does
\* there the same under the four option combinations, and so does the
\* assembly of the result, which reads no option.
C30_OptionsIndependent ==
    Running =>
        \A line \in {l \in C30_Lines : Admissible(l)} :
            \A opts \in Options :
                ParseLine(Ctx, line, line_num + 1, opts) = LineResult(line)

\* With a texture coordinate in the pool, `f 1/1/1 1/1/1 1/1/1` commits the
\* same triangle with the flag set and clear.
C30_Witness ==
    /\ Running
    /\ state.uvs # <<>>
    /\ Admissible(<<"f", "1/1/1", "1/1/1", "1/1/1">>)
    /\ <<"f", "1/1/1", "1/1/1", "1/1/1">> \in C30_Lines
    /\ LineResult(<<"f", "1/1/1", "1/1/1", "1/1/1">>).kind = "ok"
    /\ \A opts \in Options :
           ParseLine(Ctx, <<"f", "1/1/1", "1/1/1", "1/1/1">>, line_num + 1, opts)
               = LineResult(<<"f", "1/1/1", "1/1/1", "1/1/1">>)

=============================================================================
